---- MODULE Spec2Model ----
(***************************************************************************)
(* Model of braiinspool-matrix-bot: the session resume-or-login of         *)
(* Bot::run, the message handler Bot::on_room_message with the error       *)
(* boundary of the closure registered in Bot::run, and the DBStore         *)
(* wrapper over the two column families "user" and "session"; and, on      *)
(* their own, util::format_number and the loop of the "!workers" arm.      *)
(*                                                                         *)
(* Every call that leaves the process (a store call, a pool-API call, a    *)
(* room send, a redaction, a login) is one atomic step of the task that    *)
(* makes it, and its outcome (success or failure) is chosen by the         *)
(* environment.                                                            *)
(***************************************************************************)
EXTENDS Naturals, Sequences, FiniteSets, TLC

VARIABLES
    boot,      \* Bot::run: position in the start-up and what this start did
    session,   \* column family "session": the record of CONFIG.matrix.user_id
    users,     \* column family "user": user id -> record or NoUser
    tasks,     \* the message handlers in flight, one per slot
    trail,     \* history: per sender, the replies of the handlers that
               \* completed one after another (see NextTrail)
    fmt,       \* one call of util::format_number: its locals and position
    report     \* the loop of the "!workers" arm over the workers returned

vars == <<boot, session, users, tasks, trail, fmt, report>>

----------------------------------------------------------------------------
(* The bounded universe of inputs.                                         *)

BotId == "@bot"                      \* CONFIG.matrix.user_id
Users == {"@u1", "@u2"}              \* keys of the "user" column family
Senders == {"@u1", BotId}            \* senders of message events
Commanders == Senders \ {BotId}
Rooms == {"!r1", "!r2"}
Tokens == {"t1", "t2"}
AccessTokens == {"a1", "a2"}
DeviceIds == {"d1"}
Memberships == {"Joined", "Invited", "Left"}     \* matrix_sdk::room::Room
MsgTypes == {"Text", "Image"}                    \* MessageType
TaskIds == {"h1", "h2"}

NoUser == [none |-> TRUE]
NoSession == [none |-> TRUE]
UserRecs == [room_id : Rooms, token : Tokens]
SessionRecs == [access_token : AccessTokens, device_id : DeviceIds]

SP == " "
\* Message bodies, as sequences of pieces: SP is one space character, any
\* other piece is a run of non-space characters.
Bodies ==
    { <<"!userstatus">>, <<"!workers">>, <<"!dailyrewards">>, <<"!poolstatus">>,
      <<"!subscribe">>, <<"!subscribe", SP>>,
      <<"!subscribe", SP, "t1">>, <<"!subscribe", SP, "t2">>,
      <<"!subscribe", SP, SP, "t1">>,
      <<"!unlink">>, <<"!checktor">>, <<"!help">>,
      <<"!bogus">>, <<"!Help">>, <<>>, <<"hello", SP, "bot">>, <<SP, "!help">> }

----------------------------------------------------------------------------
(* Reply texts.                                                            *)

NotSubscribed == "This account in not subscribed."
AlreadySubscribed == "This account is already subscribed"
ProvideToken == "Please provide a token.\nTo subscribe send: !subscribe <token>"
Subscribed == "Subscribed"
Unlinked == "Unlinked"
NoTokenLinked == "No token linked to this account"
TorYes == "Connected to Tor Network"
TorNo == "NOT connected to Tor Network"
InvalidCommand == "Invalid command"
HelpText == "!userstatus - Get user status\n..."

QueryCommands == {"!userstatus", "!workers", "!dailyrewards", "!poolstatus"}

\* The text a successful query command sends (its header line stands for
\* the formatted statistics).
QueryText(command) ==
    CASE command = "!userstatus" -> "User Status\n\n..."
      [] command = "!workers" -> "Workers\n\n..."
      [] command = "!dailyrewards" -> "Daily Rewards\n\n..."
      [] command = "!poolstatus" -> "Pool Status\n\n..."

\* format!("{:?}", error) of bot::Error
ErrDb(e) == "Db(" \o e \o ")"
ErrSlushPool == "SlushPool(Error)"
ErrMatrix == "Matrix(Error)"

----------------------------------------------------------------------------
(* The store: bpns_rocksdb::Store as DBStore uses it.                      *)

Ok(v) == [ok |-> TRUE, val |-> v]
Err(e) == [ok |-> FALSE, err |-> e]

\* self.db.get / get_deserialized on the "user" column family
DbGetUser(cf, user_id, fault) ==
    IF fault THEN Err("FailedToGet")
    ELSE IF cf[user_id] = NoUser THEN Err("ValueNotFound")
    ELSE Ok(cf[user_id])

\* self.db.get / get_deserialized on the "session" column family
DbGetSession(rec, fault) ==
    IF fault THEN Err("FailedToGet")
    ELSE IF rec = NoSession THEN Err("ValueNotFound")
    ELSE Ok(rec)

session_exist(res) == res.ok

get_session(res) == res

create_session(access_token, device_id) ==
    [access_token |-> access_token, device_id |-> device_id]

\* mutant: a put that keeps the record already stored under the key
create_user_if_absent(cf, user_id, room_id, token) ==
    IF cf[user_id] = NoUser
    THEN [cf EXCEPT ![user_id] = [room_id |-> room_id, token |-> token]]
    ELSE cf

create_user(cf, user_id, room_id, token) ==
    [cf EXCEPT ![user_id] = [room_id |-> room_id, token |-> token]]

\* mutant: the existence test inverted (is_err for is_ok)
user_exist_inverted(res) == ~res.ok

user_exist(res) == res.ok

user_with_room_exist(res, room_id) ==
    IF res.ok THEN res.val.room_id = room_id ELSE FALSE

\* mutant: the delete empties the column family
delete_user_all(cf, user_id) == [u \in DOMAIN cf |-> NoUser]

\* mutant: the delete leaves the record in place
delete_user_kept(cf, user_id) == cf

delete_user(cf, user_id) == [cf EXCEPT ![user_id] = NoUser]

get_user(res) == res

----------------------------------------------------------------------------
(* Command extraction: msg_body.split(' ') and msg_splitted[0].            *)

RECURSIVE SplitFrom(_, _, _)
SplitFrom(body, i, cur) ==
    IF i > Len(body) THEN <<cur>>
    ELSE IF body[i] = SP THEN <<cur>> \o SplitFrom(body, i + 1, "")
    ELSE SplitFrom(body, i + 1, cur \o body[i])

Split(body) == SplitFrom(body, 1, "")

Command(body) == Split(body)[1]

----------------------------------------------------------------------------
(* Bot::run: resume the stored session or log in with the password.        *)

\* had, at_start, exist_fault, logins, resumes: what this start found and did
NewBoot(rec) ==
    [pc |-> "session_exist", had |-> rec # NoSession, at_start |-> rec,
     exist_fault |-> FALSE, logins |-> 0, resumes |-> 0,
     sess |-> NoSession, error |-> ""]

\* the `?` of a failed call in Bot::run, then main's unwrap
Panic(b, e) == [b EXCEPT !.pc = "panicked", !.error = e]

\* if STORE.session_exist(user_id) { ... } else { ... }
AfterSessionExist(b, exists) ==
    [b EXCEPT !.pc = IF exists THEN "get_session" ELSE "login"]

SessionExist ==
    /\ boot.pc = "session_exist"
    /\ \E fault \in BOOLEAN :
          boot' = AfterSessionExist([boot EXCEPT !.exist_fault = fault],
                                    session_exist(DbGetSession(session, fault)))
    /\ UNCHANGED <<session, users, tasks, trail, fmt, report>>

\* let session_store = STORE.get_session(user_id)?;
AfterGetSession(b, res) ==
    IF res.ok THEN [b EXCEPT !.pc = "restore_login", !.sess = res.val]
    ELSE Panic(b, ErrDb(res.err))

GetSession ==
    /\ boot.pc = "get_session"
    /\ \E fault \in BOOLEAN :
          boot' = AfterGetSession(boot, get_session(DbGetSession(session, fault)))
    /\ UNCHANGED <<session, users, tasks, trail, fmt, report>>

\* client.restore_login(session).await?;
AfterRestoreLogin(b, ok) ==
    IF ok THEN [b EXCEPT !.pc = "set_display_name", !.resumes = @ + 1]
    ELSE Panic([b EXCEPT !.resumes = @ + 1], ErrMatrix)

RestoreLogin ==
    /\ boot.pc = "restore_login"
    /\ \E ok \in BOOLEAN : boot' = AfterRestoreLogin(boot, ok)
    /\ UNCHANGED <<session, users, tasks, trail, fmt, report>>

\* client.login(username, password, None, Some("SlushPool Bot")).await?;
AfterLogin(b, ok) ==
    IF ok THEN [b EXCEPT !.pc = "client_session", !.logins = @ + 1]
    ELSE Panic([b EXCEPT !.logins = @ + 1], ErrMatrix)

Login ==
    /\ boot.pc = "login"
    /\ \E ok \in BOOLEAN : boot' = AfterLogin(boot, ok)
    /\ UNCHANGED <<session, users, tasks, trail, fmt, report>>

\* mutant: the session data of the login is not handed to the store
AfterClientSession_not_persisted(b, got) ==
    [b EXCEPT !.pc = "set_display_name", !.sess = got]

\* if let Some(session) = client.session().await { create_session } else { warn }
AfterClientSession(b, got) ==
    IF got # NoSession THEN [b EXCEPT !.pc = "create_session", !.sess = got]
    ELSE [b EXCEPT !.pc = "set_display_name"]

ClientSession ==
    /\ boot.pc = "client_session"
    /\ \E got \in SessionRecs \cup {NoSession} : boot' = AfterClientSession(boot, got)
    /\ UNCHANGED <<session, users, tasks, trail, fmt, report>>

\* STORE.create_session(user_id, &session.access_token, session.device_id.as_ref())?;
CreateSession ==
    /\ boot.pc = "create_session"
    /\ \E fault \in BOOLEAN :
          IF fault
          THEN /\ boot' = Panic(boot, ErrDb("FailedToPut"))
               /\ UNCHANGED session
          ELSE /\ boot' = [boot EXCEPT !.pc = "set_display_name"]
               /\ session' = create_session(boot.sess.access_token, boot.sess.device_id)
    /\ UNCHANGED <<users, tasks, trail, fmt, report>>

\* client.account().set_display_name(Some("BraiinsPool Bot")).await?;
\* then the handlers are registered and client.sync runs
SetDisplayName ==
    /\ boot.pc = "set_display_name"
    /\ \E ok \in BOOLEAN :
          boot' = IF ok THEN [boot EXCEPT !.pc = "sync"] ELSE Panic(boot, ErrMatrix)
    /\ UNCHANGED <<session, users, tasks, trail, fmt, report>>

----------------------------------------------------------------------------
(* Bot::on_room_message and the closure that calls it.                     *)

Idle == [pc |-> "idle"]

\* the loop of the "!workers" arm is not followed
ReportIdle == [pc |-> "idle"]

\* no call of util::format_number is followed
FmtIdle == [pc |-> "idle"]

Events ==
    [sender : Senders, room_id : Rooms, membership : Memberships,
     msgtype : MsgTypes, body : Bodies]

\* The locals of one call of the handler, and its history: sent (the texts
\* handed to room.send, with the outcome), remote / writes / redacts (the
\* calls made), chk (the sender's record in the store when the existence check
\* read it), faults (the calls the environment made fail), overlap (another
\* handler was in flight during this one).
NewTask(ev, concurrent) ==
    [pc |-> "entry_guard", sender |-> ev.sender, room_id |-> ev.room_id,
     membership |-> ev.membership, msgtype |-> ev.msgtype, body |-> ev.body,
     user |-> NoUser, msg_content |-> "", error |-> "", sent |-> <<>>,
     remote |-> 0, writes |-> 0, redacts |-> 0,
     chk |-> NoUser, faults |-> {}, overlap |-> concurrent]

Note(task, call, failed) ==
    IF failed THEN [task EXCEPT !.faults = @ \cup {call}] ELSE task

\* the event handler is called with a message event of the sync response
Dispatch(t, ev) ==
    /\ boot.pc = "sync"
    /\ tasks[t].pc = "idle"
    /\ tasks' = [o \in TaskIds |->
                    IF o = t THEN NewTask(ev, \E x \in TaskIds : tasks[x].pc # "idle")
                    ELSE IF tasks[o].pc = "idle" THEN tasks[o]
                    ELSE [tasks[o] EXCEPT !.overlap = TRUE]]
    /\ UNCHANGED <<boot, session, users, trail, fmt, report>>

\* mutant: the sender is not compared with the bot's own user id
PassesEntryGuard_any_sender(task) ==
    /\ task.membership = "Joined"
    /\ task.msgtype = "Text"

\* if *event.sender == CONFIG.matrix.user_id { return Ok(()) }
\* if let Room::Joined(room) = room { match msgtype { Text => body, _ => return Ok(()) } }
PassesEntryGuard(task) ==
    /\ task.sender # BotId
    /\ task.membership = "Joined"
    /\ task.msgtype = "Text"

\* mutant: the default arm answers with the help text
Route_help_by_default(task) ==
    LET command == Command(task.body) IN
    CASE command \in QueryCommands -> [task EXCEPT !.pc = "user_exist"]
      [] command = "!subscribe" -> [task EXCEPT !.pc = "user_with_room_exist"]
      [] command = "!unlink" -> [task EXCEPT !.pc = "user_exist"]
      [] command = "!checktor" -> [task EXCEPT !.pc = "remote"]
      [] command = "!help" -> [task EXCEPT !.pc = "send_result"]
      [] OTHER -> [task EXCEPT !.pc = "reply", !.msg_content = HelpText]

\* match command { ... }: the first call of each arm
Route(task) ==
    LET command == Command(task.body) IN
    CASE command \in QueryCommands -> [task EXCEPT !.pc = "user_exist"]
      [] command = "!subscribe" -> [task EXCEPT !.pc = "user_with_room_exist"]
      [] command = "!unlink" -> [task EXCEPT !.pc = "user_exist"]
      [] command = "!checktor" -> [task EXCEPT !.pc = "remote"]
      [] command = "!help" -> [task EXCEPT !.pc = "send_result"]
      [] OTHER -> [task EXCEPT !.pc = "reply", !.msg_content = InvalidCommand]

EntryGuard(t) ==
    /\ tasks[t].pc = "entry_guard"
    /\ tasks' = [tasks EXCEPT ![t] =
                    IF PassesEntryGuard(@) THEN Route(@) ELSE [@ EXCEPT !.pc = "done"]]
    /\ UNCHANGED <<boot, session, users, trail, fmt, report>>

\* if STORE.user_exist(user_id) { ... } else { msg_content = ... }
AfterUserExist(task, found) ==
    LET command == Command(task.body) IN
    IF found
    THEN [task EXCEPT !.pc = IF command = "!unlink" THEN "delete_user" ELSE "get_user"]
    ELSE [task EXCEPT !.pc = "reply",
                      !.msg_content = IF command = "!unlink" THEN NoTokenLinked
                                      ELSE NotSubscribed]

UserExist(t) ==
    /\ tasks[t].pc = "user_exist"
    /\ \E fault \in BOOLEAN :
          LET task == Note([tasks[t] EXCEPT !.chk = users[tasks[t].sender]], "exist", fault)
          IN  tasks' = [tasks EXCEPT ![t] =
                          AfterUserExist(task, user_exist(DbGetUser(users, task.sender, fault)))]
    /\ UNCHANGED <<boot, session, users, trail, fmt, report>>

\* the `?` of a failed call: on_room_message returns Err(error)
Raise(task, e) == [task EXCEPT !.pc = "on_error", !.error = e]

\* let user = STORE.get_user(user_id)?;
AfterGetUser(task, res) ==
    IF res.ok THEN [task EXCEPT !.pc = "remote", !.user = res.val]
    ELSE Raise(task, ErrDb(res.err))

GetUser(t) ==
    /\ tasks[t].pc = "get_user"
    /\ \E fault \in BOOLEAN :
          LET task == Note(tasks[t], "get_user", fault)
          IN  tasks' = [tasks EXCEPT ![t] =
                          AfterGetUser(task, get_user(DbGetUser(users, task.sender, fault)))]
    /\ UNCHANGED <<boot, session, users, trail, fmt, report>>

\* mutant: a failed pool-API call is ignored and the arm goes on
AfterRemote_ignored(task, ok, is_tor) ==
    LET called == [task EXCEPT !.remote = @ + 1] IN
    IF Command(task.body) = "!checktor"
    THEN [called EXCEPT !.pc = "reply", !.msg_content = IF ok /\ is_tor THEN TorYes ELSE TorNo]
    ELSE [called EXCEPT !.pc = "send_result"]

\* mutant: a failed pool-API call is made again
AfterRemote_retried(task, ok, is_tor) ==
    LET called == [task EXCEPT !.remote = @ + 1] IN
    IF ~ok THEN called
    ELSE IF Command(task.body) = "!checktor"
    THEN [called EXCEPT !.pc = "reply", !.msg_content = IF is_tor THEN TorYes ELSE TorNo]
    ELSE [called EXCEPT !.pc = "send_result"]

\* client.user_profile() / workers() / daily_rewards() / pool_stats() /
\* check_tor_connection(), each followed by `.await?`
AfterRemote(task, ok, is_tor) ==
    LET called == [task EXCEPT !.remote = @ + 1] IN
    IF ~ok THEN Raise(called, ErrSlushPool)
    ELSE IF Command(task.body) = "!checktor"
    THEN [called EXCEPT !.pc = "reply", !.msg_content = IF is_tor THEN TorYes ELSE TorNo]
    ELSE [called EXCEPT !.pc = "send_result"]

RemoteCall(t) ==
    /\ tasks[t].pc = "remote"
    /\ \E ok \in BOOLEAN, is_tor \in BOOLEAN :
          tasks' = [tasks EXCEPT ![t] = AfterRemote(Note(@, "remote", ~ok), ok, is_tor)]
    /\ UNCHANGED <<boot, session, users, trail, fmt, report>>

\* the text a query arm or "!help" builds and sends itself
ResultText(task) ==
    IF Command(task.body) = "!help" THEN HelpText ELSE QueryText(Command(task.body))

\* an arm that sends its own text and also leaves it in msg_content
AfterSend_twice(task, text, ok) ==
    LET tried == [task EXCEPT !.sent = Append(@, [text |-> text, ok |-> ok])] IN
    IF ~ok THEN Raise(tried, ErrMatrix)
    ELSE IF task.pc = "send_result"
    THEN [tried EXCEPT !.pc = "reply", !.msg_content = text]
    ELSE [tried EXCEPT !.pc = "done"]

\* room.send(content, None).await?; after it the arm is over: msg_content is
\* still empty when the arm sent its own text, so no second send follows
AfterSend(task, text, ok) ==
    LET tried == [task EXCEPT !.sent = Append(@, [text |-> text, ok |-> ok])] IN
    IF ok THEN [tried EXCEPT !.pc = "done"] ELSE Raise(tried, ErrMatrix)

SendResult(t) ==
    /\ tasks[t].pc = "send_result"
    /\ \E ok \in BOOLEAN :
          tasks' = [tasks EXCEPT ![t] = AfterSend(Note(@, "send", ~ok), ResultText(@), ok)]
    /\ UNCHANGED <<boot, session, users, trail, fmt, report>>

\* mutant: an empty token is accepted (the test !token.is_empty() dropped)
AfterUserWithRoomExist_any_token(task, exists) ==
    IF ~exists
    THEN IF Len(Split(task.body)) >= 2
         THEN [task EXCEPT !.pc = "create_user"]
         ELSE [task EXCEPT !.pc = "reply", !.msg_content = ProvideToken]
    ELSE [task EXCEPT !.pc = "reply", !.msg_content = AlreadySubscribed]

\* if !STORE.user_with_room_exist(user_id, room_id) { if msg_splitted.len() >= 2 ... }
AfterUserWithRoomExist(task, exists) ==
    LET msg_splitted == Split(task.body) IN
    IF ~exists
    THEN IF Len(msg_splitted) >= 2
         THEN IF msg_splitted[2] # ""
              THEN [task EXCEPT !.pc = "create_user"]
              ELSE [task EXCEPT !.pc = "reply", !.msg_content = ProvideToken]
         ELSE [task EXCEPT !.pc = "reply", !.msg_content = ProvideToken]
    ELSE [task EXCEPT !.pc = "reply", !.msg_content = AlreadySubscribed]

UserWithRoomExist(t) ==
    /\ tasks[t].pc = "user_with_room_exist"
    /\ \E fault \in BOOLEAN :
          LET task == Note([tasks[t] EXCEPT !.chk = users[tasks[t].sender]], "exist", fault)
          IN  tasks' = [tasks EXCEPT ![t] =
                          AfterUserWithRoomExist(
                              task,
                              user_with_room_exist(DbGetUser(users, task.sender, fault),
                                                   task.room_id))]
    /\ UNCHANGED <<boot, session, users, trail, fmt, report>>

\* STORE.create_user(user_id, room_id, token)?;
AfterCreateUser(task, ok) ==
    LET called == [task EXCEPT !.writes = @ + 1] IN
    IF ok THEN [called EXCEPT !.pc = "redact"] ELSE Raise(called, ErrDb("FailedToPut"))

CreateUser(t) ==
    /\ tasks[t].pc = "create_user"
    /\ \E ok \in BOOLEAN :
          /\ tasks' = [tasks EXCEPT ![t] = AfterCreateUser(Note(@, "create_user", ~ok), ok)]
          /\ users' = IF ok
                      THEN create_user(users, tasks[t].sender, tasks[t].room_id,
                                       Split(tasks[t].body)[2])
                      ELSE users
    /\ UNCHANGED <<boot, session, trail, fmt, report>>

\* mutant: the redaction's error is raised (`?` for `let _ =`)
AfterRedact_raises(task, ok) ==
    IF ok THEN [task EXCEPT !.redacts = @ + 1, !.pc = "reply", !.msg_content = Subscribed]
    ELSE Raise([task EXCEPT !.redacts = @ + 1], ErrMatrix)

\* let _ = room.redact(&event.event_id, None, None).await; msg_content = "Subscribed";
AfterRedact(task, ok) ==
    [task EXCEPT !.redacts = @ + 1, !.pc = "reply", !.msg_content = Subscribed]

Redact(t) ==
    /\ tasks[t].pc = "redact"
    /\ \E ok \in BOOLEAN :
          tasks' = [tasks EXCEPT ![t] = AfterRedact(Note(@, "redact", ~ok), ok)]
    /\ UNCHANGED <<boot, session, users, trail, fmt, report>>

\* STORE.delete_user(user_id)?; msg_content = "Unlinked";
AfterDeleteUser(task, ok) ==
    LET called == [task EXCEPT !.writes = @ + 1] IN
    IF ok THEN [called EXCEPT !.pc = "reply", !.msg_content = Unlinked]
    ELSE Raise(called, ErrDb("FailedToDelete"))

DeleteUser(t) ==
    /\ tasks[t].pc = "delete_user"
    /\ \E ok \in BOOLEAN :
          /\ tasks' = [tasks EXCEPT ![t] = AfterDeleteUser(Note(@, "delete_user", ~ok), ok)]
          /\ users' = IF ok THEN delete_user(users, tasks[t].sender) ELSE users
    /\ UNCHANGED <<boot, session, trail, fmt, report>>

\* if !msg_content.is_empty() { room.send(text_plain(msg_content), None).await?; }
\* (every arm that reaches this send has set msg_content)
Reply(t) ==
    /\ tasks[t].pc = "reply"
    /\ \E ok \in BOOLEAN :
          tasks' = [tasks EXCEPT ![t] = AfterSend(Note(@, "send", ~ok), @.msg_content, ok)]
    /\ UNCHANGED <<boot, session, users, trail, fmt, report>>

\* if let Err(error) = Self::on_room_message(event, &room).await {
\*     if let Room::Joined(room) = room { let _ = room.send(format!("{:?}", error)).await; } }
OnError(task, ok) ==
    IF task.membership = "Joined"
    THEN [task EXCEPT !.pc = "done",
                      !.sent = Append(@, [text |-> task.error, ok |-> ok])]
    ELSE [task EXCEPT !.pc = "done"]

\* a closure that unwraps the handler's result instead of matching on it
HandlerError_unwraps(t) ==
    /\ tasks[t].pc = "on_error"
    /\ boot' = Panic(boot, tasks[t].error)
    /\ tasks' = [tasks EXCEPT ![t] = [Note(@, "send_error", TRUE) EXCEPT !.pc = "done"]]
    /\ UNCHANGED <<session, users, trail, fmt, report>>

HandlerError(t) ==
    /\ tasks[t].pc = "on_error"
    /\ \E ok \in BOOLEAN :
          tasks' = [tasks EXCEPT ![t] = OnError(Note(@, "send_error", ~ok), ok)]
    /\ UNCHANGED <<boot, session, users, trail, fmt, report>>

\* the texts a handler handed to room.send, in order
Texts(task) == [i \in 1..Len(task.sent) |-> task.sent[i].text]

\* no call of the handler failed (a failed redaction is ignored by the code)
\* and no other handler ran beside it
Undisturbed(task) == task.faults \subseteq {"redact"} /\ ~task.overlap

HasToken(body) == Len(Split(body)) >= 2 /\ Split(body)[2] # ""

\* History of one sender: <<replies of a `!subscribe <token>` that found no
\* record>>, then <<.., replies of the `!unlink` handled next>>; any other
\* command of the sender, or a disturbed one, ends the history.
NextTrail(tr, task) ==
    IF Undisturbed(task) /\ Command(task.body) = "!subscribe" /\ HasToken(task.body)
       /\ task.chk = NoUser
    THEN <<Texts(task)>>
    ELSE IF Undisturbed(task) /\ Command(task.body) = "!unlink" /\ Len(tr) = 1
    THEN Append(tr, Texts(task))
    ELSE <<>>

\* the handler's future completes and is dropped
Finish(t) ==
    /\ tasks[t].pc = "done"
    /\ tasks' = [tasks EXCEPT ![t] = Idle]
    /\ trail' = IF PassesEntryGuard(tasks[t])
                THEN [trail EXCEPT ![tasks[t].sender] = NextTrail(@, tasks[t])]
                ELSE trail
    /\ UNCHANGED <<boot, session, users, fmt, report>>

\* the process ends (the panic of main's unwrap, or a kill) and is started again;
\* the store is on disk and stays
Restart ==
    /\ boot.pc \in {"sync", "panicked"}
    /\ boot' = NewBoot(session)
    /\ tasks' = [t \in TaskIds |-> Idle]
    /\ trail' = [u \in Commanders |-> <<>>]
    /\ UNCHANGED <<session, users, fmt, report>>

----------------------------------------------------------------------------
(* Spec: the whole program, from the start of the process, over every      *)
(* event of Events, one handler at a time.                                 *)

Init ==
    /\ session \in SessionRecs \cup {NoSession}
    /\ users \in [Users -> UserRecs \cup {NoUser}]
    /\ boot = NewBoot(session)
    /\ tasks = [t \in TaskIds |-> Idle]
    /\ trail = [u \in Commanders |-> <<>>]
    /\ fmt = FmtIdle
    /\ report = ReportIdle

Startup ==
    \/ SessionExist \/ GetSession \/ RestoreLogin \/ Login
    \/ ClientSession \/ CreateSession \/ SetDisplayName \/ Restart

Handler(t) ==
    \/ EntryGuard(t) \/ UserExist(t) \/ GetUser(t) \/ RemoteCall(t) \/ SendResult(t)
    \/ UserWithRoomExist(t) \/ CreateUser(t) \/ Redact(t) \/ DeleteUser(t)
    \/ Reply(t) \/ HandlerError(t) \/ Finish(t)

Next ==
    \/ Startup
    \/ \E ev \in Events : Dispatch("h1", ev)
    \/ Handler("h1")

Spec == Init /\ [][Next]_vars

----------------------------------------------------------------------------
(* SpecRace: the handlers of two message events of one user in flight at   *)
(* once (each event handler call is its own task), on a bot that resumed   *)
(* its session and is syncing; the events are the store-touching commands. *)

RaceBodies == { <<"!userstatus">>, <<"!unlink">>, <<"!subscribe", SP, "t1">> }

RaceEvents ==
    [sender : Commanders, room_id : Rooms, membership : {"Joined"},
     msgtype : {"Text"}, body : RaceBodies]

InitRace ==
    /\ session = create_session("a1", "d1")
    /\ users \in { f \in [Users -> UserRecs \cup {NoUser}] :
                        \A u \in Users \ Commanders : f[u] = NoUser }
    /\ boot = [NewBoot(session) EXCEPT !.pc = "sync", !.resumes = 1, !.sess = session]
    /\ tasks = [t \in TaskIds |-> Idle]
    /\ trail = [u \in Commanders |-> <<>>]
    /\ fmt = FmtIdle
    /\ report = ReportIdle

NextRace ==
    \/ \E t \in TaskIds, ev \in RaceEvents : Dispatch(t, ev)
    \/ \E t \in TaskIds : Handler(t)

SpecRace == InitRace /\ [][NextRace]_vars

----------------------------------------------------------------------------
(* util::format_number. A usize is held as the sequence of its base-1000    *)
(* limbs, most significant first and without leading zero limbs (the       *)
(* integers of the checker are 32 bits wide); a String is the sequence of   *)
(* its characters.                                                         *)

Zero == <<0>>
U64Max == <<18, 446, 744, 73, 709, 551, 615>>       \* usize::MAX = 2^64 - 1

\* a >= b
Geq(a, b) ==
    IF Len(a) # Len(b) THEN Len(a) > Len(b)
    ELSE \/ a = b
         \/ \E i \in 1..Len(a) : a[i] > b[i] /\ \A j \in 1..(i - 1) : a[j] = b[j]

\* 1000^k, exact
Pow1000(k) == <<1>> \o [i \in 1..k |-> 0]

\* 1000^k mod 2^64, for the k with 1000^k > usize::MAX (1000^22 = 2^66 * 5^66)
Wrapped(k) ==
    CASE k = 7 -> <<3, 875, 820, 19, 684, 212, 736>>
      [] k = 8 -> <<2, 3, 764, 205, 206, 896, 640>>
      [] k = 9 -> <<11, 515, 845, 246, 265, 65, 472>>
      [] k = 10 -> <<5, 76, 944, 270, 305, 263, 616>>
      [] k = 11 -> <<4, 89, 650, 35, 136, 921, 600>>
      [] k = 12 -> <<12, 919, 594, 847, 110, 692, 864>>
      [] k = 13 -> <<6, 873, 995, 514, 6, 732, 800>>
      [] k = 14 -> <<11, 806, 718, 586, 779, 598, 848>>
      [] k = 15 -> <<802, 379, 605, 485, 813, 760>>
      [] k = 16 -> <<9, 169, 610, 316, 303, 40, 512>>
      [] k = 17 -> <<1, 578, 511, 669, 393, 358, 848>>
      [] k = 18 -> <<10, 538, 423, 128, 46, 960, 640>>
      [] k = 19 -> <<5, 332, 261, 958, 806, 667, 264>>
      [] k = 20 -> <<1, 152, 921, 504, 606, 846, 976>>
      [] k = 21 -> <<9, 223, 372, 36, 854, 775, 808>>
      [] OTHER -> Zero

DigitChars == <<"0", "1", "2", "3", "4", "5", "6", "7", "8", "9">>
Char(d) == DigitChars[d + 1]
Comma == ","

\* the three decimal digits of a limb, and its digits without leading zeros
Padded(l) == <<Char(l \div 100), Char((l \div 10) % 10), Char(l % 10)>>
Unpadded(l) ==
    IF l >= 100 THEN Padded(l)
    ELSE IF l >= 10 THEN SubSeq(Padded(l), 2, 3)
    ELSE SubSeq(Padded(l), 3, 3)

RECURSIVE Concat(_)
Concat(ss) == IF ss = <<>> THEN <<>> ELSE Head(ss) \o Concat(Tail(ss))

\* num.to_string()
to_string(num) ==
    Unpadded(num[1]) \o Concat([i \in 1..(Len(num) - 1) |-> Padded(num[i + 1])])

\* formatted_number.join(",")
RECURSIVE join(_, _)
join(ss, sep) ==
    IF Len(ss) = 0 THEN <<>>
    ELSE IF Len(ss) = 1 THEN ss[1]
    ELSE ss[1] \o <<sep>> \o join(Tail(ss), sep)

\* The numbers format_number is called with: one, two and three digit leading
\* limbs over tails of zeros, of nines and of mixed limbs, up to usize::MAX.
Tops == {1, 5, 18, 180, 999}
MixedTail == <<5, 40, 123, 0, 999, 7>>
Tails ==
    UNION { { [i \in 1..n |-> 0], [i \in 1..n |-> 999], SubSeq(MixedTail, 1, n) } :
            n \in 1..6 }
FmtInputs ==
    {Zero, <<7>>, <<42>>, <<999>>, U64Max}
    \cup { n \in { <<a>> \o tail : a \in Tops, tail \in Tails } : Geq(U64Max, n) }

\* a call of format_number(num) in a build with or without overflow checks
NewFmt(num, overflow_checks) ==
    [pc |-> "to_string", overflow_checks |-> overflow_checks, num |-> num,
     number |-> <<>>, counter |-> 0, formatted_number |-> <<>>,
     overflowed |-> FALSE, panic |-> ""]

FmtPanic(f, msg) == [f EXCEPT !.pc = "panicked", !.panic = msg]

\* let mut number = num.to_string(); if number_len > 3 { let mut counter: u8 = 1; ...
Enter(f) ==
    LET number == to_string(f.num) IN
    IF Len(number) > 3
    THEN [f EXCEPT !.number = number, !.counter = 1, !.pc = "count"]
    ELSE [f EXCEPT !.number = number, !.pc = "returned"]

\* if num / usize::pow(1000, counter.into()) > 0 { counter += 1; } else { break; }
\* The power overflows usize for counter >= 7: a panic with overflow checks,
\* the wrapped value without them; a division by a wrapped 0 panics.
Count(f) ==
    LET exact == Pow1000(f.counter)
        fits == Geq(U64Max, exact)
        g == [f EXCEPT !.overflowed = @ \/ ~fits]
        power == IF fits THEN exact ELSE Wrapped(f.counter)
    IN  IF ~fits /\ f.overflow_checks
        THEN FmtPanic(g, "attempt to multiply with overflow")
        ELSE IF power = Zero
        THEN FmtPanic(g, "attempt to divide by zero")
        ELSE IF Geq(f.num, power)
        THEN [g EXCEPT !.counter = @ + 1]
        ELSE [g EXCEPT !.pc = "first"]

\* mutant: the count of groups is not taken back by one
First_no_decrement(f) ==
    LET len == Len(f.number)
        taken == f.counter * 3
    IN  IF taken > len
        THEN FmtPanic(f, "byte index out of range")
        ELSE [f EXCEPT !.formatted_number = <<SubSeq(f.number, 1, len - taken)>>,
                       !.number = SubSeq(f.number, len - taken + 1, len),
                       !.pc = "group"]

\* counter -= 1;
\* formatted_number = vec![number[0..(number_len - counter as usize * 3)].into()];
\* number.replace_range(0..(number_len - counter as usize * 3), "");
\* (number_len - counter * 3 below zero: a panic of the subtraction with
\* overflow checks, of the slice at the wrapped index without them)
First(f) ==
    LET counter == f.counter - 1
        len == Len(f.number)
        taken == counter * 3
    IN  IF taken > len
        THEN FmtPanic([f EXCEPT !.counter = counter, !.overflowed = TRUE],
                      IF f.overflow_checks THEN "attempt to subtract with overflow"
                      ELSE "byte index out of range")
        ELSE [f EXCEPT !.counter = counter,
                       !.formatted_number = <<SubSeq(f.number, 1, len - taken)>>,
                       !.number = SubSeq(f.number, len - taken + 1, len),
                       !.pc = "group"]

\* loop { if counter > 0 { if !number[0..3].is_empty() { push; replace_range }
\*        counter -= 1 } else { break; } }
Group(f) ==
    IF f.counter > 0
    THEN IF Len(f.number) < 3
         THEN FmtPanic(f, "byte index out of range")
         ELSE [f EXCEPT !.formatted_number = Append(@, SubSeq(f.number, 1, 3)),
                        !.number = SubSeq(f.number, 4, Len(f.number)),
                        !.counter = @ - 1]
    ELSE [f EXCEPT !.pc = "join"]

\* number = formatted_number.join(","); number
Join(f) == [f EXCEPT !.number = join(f.formatted_number, Comma), !.pc = "returned"]

FmtEnter ==
    /\ fmt.pc = "to_string"
    /\ fmt' = Enter(fmt)
    /\ UNCHANGED <<boot, session, users, tasks, trail, report>>

FmtCount ==
    /\ fmt.pc = "count"
    /\ fmt' = Count(fmt)
    /\ UNCHANGED <<boot, session, users, tasks, trail, report>>

FmtFirst ==
    /\ fmt.pc = "first"
    /\ fmt' = First(fmt)
    /\ UNCHANGED <<boot, session, users, tasks, trail, report>>

FmtGroup ==
    /\ fmt.pc = "group"
    /\ fmt' = Group(fmt)
    /\ UNCHANGED <<boot, session, users, tasks, trail, report>>

FmtJoin ==
    /\ fmt.pc = "join"
    /\ fmt' = Join(fmt)
    /\ UNCHANGED <<boot, session, users, tasks, trail, report>>

(* SpecFmt: one call of format_number for each number of FmtInputs, in a   *)
(* build with and in a build without overflow checks.                      *)

InitFmt ==
    /\ session = NoSession
    /\ users = [u \in Users |-> NoUser]
    /\ boot = NewBoot(session)
    /\ tasks = [t \in TaskIds |-> Idle]
    /\ trail = [u \in Commanders |-> <<>>]
    /\ \E num \in FmtInputs, overflow_checks \in BOOLEAN :
          fmt = NewFmt(num, overflow_checks)
    /\ report = ReportIdle

NextFmt == FmtEnter \/ FmtCount \/ FmtFirst \/ FmtGroup \/ FmtJoin

SpecFmt == InitFmt /\ [][NextFmt]_vars

----------------------------------------------------------------------------
(* The loop of the "!workers" arm: the text built from the workers the     *)
(* pool API returned. A qualified worker name is a sequence of pieces, DOT *)
(* for one '.' and any other piece a run of other characters; a line of    *)
(* the text is its label and what follows it.                              *)

DOT == "."

WorkerNames ==
    { <<"user">>, <<"user", DOT, "rig">>, <<"user", DOT, "rig", DOT, "1">>,
      <<"user", DOT>>, <<DOT, "rig">>, <<"a", DOT, "b", DOT, "c", DOT, "d">> }

\* the map of workers of a response, in the order the loop visits it
WorkerMaps ==
    {<<>>} \cup { <<a>> : a \in WorkerNames }
    \cup UNION { { <<a, b>> : b \in WorkerNames \ {a} } : a \in WorkerNames }

\* name.split('.').collect()
RECURSIVE SplitDotFrom(_, _, _)
SplitDotFrom(name, i, cur) ==
    IF i > Len(name) THEN <<cur>>
    ELSE IF name[i] = DOT THEN <<cur>> \o SplitDotFrom(name, i + 1, "")
    ELSE SplitDotFrom(name, i + 1, cur \o name[i])

\* the qualified name as one string (it stands for the worker's own values)
RECURSIVE Str(_)
Str(name) == IF name = <<>> THEN "" ELSE Head(name) \o Str(Tail(name))

\* if name_splitted.len() >= 2 { "Worker: {}", name_splitted[1] }, then the
\* six lines of the worker
WorkerLines(name) ==
    LET name_splitted == SplitDotFrom(name, 1, "") IN
    (IF Len(name_splitted) >= 2
     THEN <<[label |-> "Worker", text |-> name_splitted[2]]>> ELSE <<>>)
    \o [i \in 1..6 |->
          [label |-> <<"Status", "Last share", "Hashrate scoring", "Hashrate 5m",
                       "Hashrate 60m", "Hashrate 24h">>[i],
           text |-> Str(name)]]

\* let obj = client.workers().await?; let mut msg = String::from("Workers\n\n");
NewReport(obj) ==
    [pc |-> "loop", obj |-> obj, visited |-> 0,
     msg |-> <<[label |-> "Workers", text |-> ""]>>]

\* for (name, worker) in obj { ... }
WorkersLoop ==
    /\ report.pc = "loop"
    /\ report.visited < Len(report.obj)
    /\ report' = [report EXCEPT !.visited = @ + 1,
                                !.msg = @ \o WorkerLines(report.obj[report.visited + 1])]
    /\ UNCHANGED <<boot, session, users, tasks, trail, fmt>>

\* room.send(RoomMessageEventContent::text_plain(msg), None)
WorkersSend ==
    /\ report.pc = "loop"
    /\ report.visited = Len(report.obj)
    /\ report' = [report EXCEPT !.pc = "sent"]
    /\ UNCHANGED <<boot, session, users, tasks, trail, fmt>>

(* SpecWorkers: the "!workers" text for every map of WorkerMaps.           *)

InitWorkers ==
    /\ session = NoSession
    /\ users = [u \in Users |-> NoUser]
    /\ boot = NewBoot(session)
    /\ tasks = [t \in TaskIds |-> Idle]
    /\ trail = [u \in Commanders |-> <<>>]
    /\ fmt = FmtIdle
    /\ \E obj \in WorkerMaps : report = NewReport(obj)

NextWorkers == WorkersLoop \/ WorkersSend

SpecWorkers == InitWorkers /\ [][NextWorkers]_vars

----------------------------------------------------------------------------
(* The claims.                                                             *)

InFlight(t) == tasks[t].pc # "idle"
Done(t) == tasks[t].pc = "done"
Handled(t) == Done(t) /\ PassesEntryGuard(tasks[t])

\* C1: a `!subscribe <token>` of a user who has a Subscription record, sent
\* from any room (and with no call failing), is answered "This account is
\* already subscribed", makes no persistence write and leaves the record as
\* it was.
C1_AlreadySubscribedFromAnyRoom ==
    \A t \in TaskIds :
        (/\ Handled(t)
         /\ Command(tasks[t].body) = "!subscribe"
         /\ HasToken(tasks[t].body)
         /\ tasks[t].chk # NoUser
         /\ tasks[t].faults = {})
        => /\ tasks[t].sent[1].text = AlreadySubscribed
           /\ tasks[t].writes = 0
           /\ users[tasks[t].sender] = tasks[t].chk

\* C2: an account-query command of a user who has no Subscription record when
\* the handler checks replies "This account in not subscribed.", calls the
\* pool API not at all and writes nothing to the store.
C2_QueryWithoutSubscription ==
    \A t \in TaskIds :
        (/\ InFlight(t)
         /\ PassesEntryGuard(tasks[t])
         /\ Command(tasks[t].body) \in QueryCommands
         /\ tasks[t].pc \notin {"entry_guard", "user_exist"}
         /\ tasks[t].chk = NoUser)
        => /\ tasks[t].remote = 0
           /\ tasks[t].writes = 0
           /\ tasks[t].msg_content = NotSubscribed
           /\ Done(t) => /\ Len(tasks[t].sent) >= 1
                         /\ tasks[t].sent[1].text = NotSubscribed
                         /\ tasks[t].sent[1].ok => Texts(tasks[t]) = <<NotSubscribed>>

C2_Witness ==
    \E t \in TaskIds :
        /\ Handled(t)
        /\ Command(tasks[t].body) \in QueryCommands
        /\ tasks[t].chk = NoUser
        /\ tasks[t].sent = <<[text |-> NotSubscribed, ok |-> TRUE]>>

\* C3: a failed store read in the existence check of a command (here: of a
\* user who has a record) aborts the command with the store error as the text
\* sent to the room, and nothing is written.
C3_StoreFailureIsSurfaced ==
    \A t \in TaskIds :
        (Handled(t) /\ "exist" \in tasks[t].faults /\ tasks[t].chk # NoUser)
        => /\ tasks[t].error = ErrDb("FailedToGet")
           /\ Texts(tasks[t]) = <<ErrDb("FailedToGet")>>
           /\ tasks[t].writes = 0

\* C4: a failed pool-API call aborts the command: the only text sent is the
\* error's description, the call was made once, nothing is written.
C4_RemoteFailureAborts ==
    \A t \in TaskIds :
        (InFlight(t) /\ "remote" \in tasks[t].faults)
        => /\ tasks[t].pc \in {"on_error", "done"}
           /\ tasks[t].error = ErrSlushPool
           /\ tasks[t].remote = 1
           /\ tasks[t].writes = 0
           /\ Done(t) => Texts(tasks[t]) = <<ErrSlushPool>>

C4_Witness ==
    \E t \in TaskIds :
        /\ Done(t)
        /\ "remote" \in tasks[t].faults
        /\ Command(tasks[t].body) = "!userstatus"
        /\ tasks[t].sent = <<[text |-> ErrSlushPool, ok |-> TRUE]>>

\* C5: whatever the interleaving of the handlers, no handler ends in an error
\* for a Subscription record that is absent.
C5_AbsenceIsNeverAnError ==
    \A t \in TaskIds :
        InFlight(t) => tasks[t].error # ErrDb("ValueNotFound")

\* C6: for a user with no Subscription, `!subscribe <token>` and then `!unlink`,
\* handled one after the other with no failed call, are answered "Subscribed"
\* and "Unlinked" and leave no record; the command handled next is answered
\* "This account in not subscribed." (a query) or "No token linked to this
\* account" (`!unlink`).
C6_SubscribeThenUnlink ==
    \A u \in Commanders :
        /\ Len(trail[u]) >= 1 => trail[u][1] = <<Subscribed>>
        /\ Len(trail[u]) = 2 => trail[u][2] = <<Unlinked>>
        /\ (Len(trail[u]) = 2 /\ \A t \in TaskIds : ~InFlight(t)) => users[u] = NoUser
        /\ \A t \in TaskIds :
              (/\ Len(trail[u]) = 2
               /\ Handled(t)
               /\ tasks[t].sender = u
               /\ Undisturbed(tasks[t]))
              => /\ Command(tasks[t].body) \in QueryCommands
                        => Texts(tasks[t]) = <<NotSubscribed>>
                 /\ Command(tasks[t].body) = "!unlink"
                        => Texts(tasks[t]) = <<NoTokenLinked>> /\ users[u] = NoUser

C6_Witness ==
    \E u \in Commanders, t \in TaskIds :
        /\ trail[u] = << <<Subscribed>>, <<Unlinked>> >>
        /\ Handled(t)
        /\ tasks[t].sender = u
        /\ Command(tasks[t].body) = "!userstatus"
        /\ Texts(tasks[t]) = <<NotSubscribed>>

\* C7: an event sent by the bot itself, or in a room that is not joined, or
\* that is not a text message, ends the handler at once: no text sent, no
\* pool-API call, no store write, no redaction, no error.
C7_EntryGuard ==
    \A t \in TaskIds :
        (InFlight(t) /\ (\/ tasks[t].sender = BotId
                         \/ tasks[t].membership # "Joined"
                         \/ tasks[t].msgtype # "Text"))
        => /\ tasks[t].pc \in {"entry_guard", "done"}
           /\ tasks[t].sent = <<>>
           /\ tasks[t].remote = 0
           /\ tasks[t].writes = 0
           /\ tasks[t].redacts = 0
           /\ tasks[t].error = ""

C7_Witness ==
    \E t \in TaskIds :
        /\ Done(t)
        /\ tasks[t].sender = BotId
        /\ tasks[t].membership = "Joined"
        /\ tasks[t].msgtype = "Text"
        /\ tasks[t].body = <<"!subscribe", SP, "t1">>
        /\ users["@u1"] = NoUser

\* C8: a start that finds a Session record in the store makes no password
\* login and leaves the record as it was.
C8_StoredSessionNeverLogsIn ==
    boot.had => (boot.logins = 0 /\ session = boot.at_start)

\* C9: a start whose read of the Session record fails makes no password login
\* and writes no Session record.
C9_SessionReadFailureIsNoLogin ==
    boot.exist_fault => (boot.logins = 0 /\ session = boot.at_start)

\* C10: one handler makes at most one pool-API call, at most one store write
\* and at most one redaction, the redaction only for `!subscribe`.
C10_AtMostOneOfEach ==
    \A t \in TaskIds :
        InFlight(t)
        => /\ tasks[t].remote <= 1
           /\ tasks[t].writes <= 1
           /\ tasks[t].redacts <= 1
           /\ tasks[t].redacts = 1 => Command(tasks[t].body) = "!subscribe"

C10_Witness ==
    \E t \in TaskIds :
        /\ Done(t)
        /\ Command(tasks[t].body) = "!subscribe"
        /\ tasks[t].writes = 1
        /\ tasks[t].redacts = 1
        /\ "redact" \in tasks[t].faults
        /\ "send" \in tasks[t].faults

\* C11 (as claimed): every event that passes the entry guard ends with exactly
\* one room.send call, whatever the command and the outcome.
C11_ExactlyOneSend ==
    \A t \in TaskIds : Handled(t) => Len(tasks[t].sent) = 1

\* C11 (amended): every event that passes the entry guard ends with one or two
\* room.send calls and at most one delivered text; a second call is made only
\* after the first one failed and carries the text of that transport error;
\* when no send fails there is exactly one call and its text is delivered.
C11_OneSendUnlessTheSendFails ==
    \A t \in TaskIds :
        Handled(t)
        => /\ Len(tasks[t].sent) \in {1, 2}
           /\ tasks[t].sent[1].ok => Len(tasks[t].sent) = 1
           /\ Len(tasks[t].sent) = 2
                 => /\ ~tasks[t].sent[1].ok
                    /\ "send" \in tasks[t].faults
                    /\ tasks[t].error = ErrMatrix
                    /\ tasks[t].sent[2].text = ErrMatrix
           /\ tasks[t].faults \cap {"send", "send_error"} = {}
                 => Len(tasks[t].sent) = 1 /\ tasks[t].sent[1].ok

C11_Witness ==
    \E t \in TaskIds :
        /\ Handled(t)
        /\ Command(tasks[t].body) = "!subscribe"
        /\ tasks[t].sent = <<[text |-> Subscribed, ok |-> FALSE],
                             [text |-> ErrMatrix, ok |-> TRUE]>>

\* C12: an error raised in a handler stops that handler only: the process
\* stays in the event loop, the error's text is what the closure hands to
\* room.send (whether or not that send succeeds), and the step that catches
\* the error changes neither the store nor the start-up state nor any other
\* handler.
C12_FailureStaysInItsHandler ==
    /\ [](\A t \in TaskIds :
            (InFlight(t) /\ tasks[t].error # "")
            => /\ boot.pc = "sync"
               /\ tasks[t].pc \in {"on_error", "done"}
               /\ tasks[t].membership = "Joined"
               /\ Done(t) => tasks[t].sent[Len(tasks[t].sent)].text = tasks[t].error)
    /\ [][\A t \in TaskIds :
            (tasks[t].pc = "on_error" /\ tasks'[t].pc = "done")
            => /\ UNCHANGED <<boot, session, users, trail>>
               /\ \A o \in TaskIds \ {t} : tasks'[o] = tasks[o]]_vars

C12_Witness ==
    \E t \in TaskIds :
        /\ Done(t)
        /\ boot.pc = "sync"
        /\ tasks[t].error = ErrDb("FailedToDelete")
        /\ tasks[t].sent = <<[text |-> ErrDb("FailedToDelete"), ok |-> FALSE]>>

\* the record a `!subscribe <token>` handler writes
Written(task) == [room_id |-> task.room_id, token |-> Split(task.body)[2]]

\* both handlers are `!subscribe` commands of one user that found no record
\* in their existence check and have completed their write
BothWrote ==
    /\ tasks["h1"].pc \in {"redact", "reply", "done"}
    /\ tasks["h2"].pc \in {"redact", "reply", "done"}
    /\ \A t \in TaskIds :
          /\ Command(tasks[t].body) = "!subscribe"
          /\ tasks[t].chk = NoUser
          /\ tasks[t].writes = 1
          /\ "create_user" \notin tasks[t].faults
    /\ tasks["h1"].sender = tasks["h2"].sender

\* C14: the store holds at most one Subscription record per user id (it is a
\* map from user ids); every completed write of a `!subscribe` leaves the
\* sender's record holding that write's room and token, whatever was stored
\* before, so after two racing `!subscribe` of one user the record is the one
\* of the write that happened last.
C14_LastWriteWins ==
    /\ [](users \in [Users -> UserRecs \cup {NoUser}])
    /\ [](BothWrote => users[tasks["h1"].sender] \in {Written(tasks[t]) : t \in TaskIds})
    /\ [][\A t \in TaskIds :
            (tasks[t].pc = "create_user" /\ tasks'[t].pc = "redact")
            => users' = [users EXCEPT ![tasks[t].sender] = Written(tasks[t])]]_vars

C14_Witness ==
    /\ BothWrote
    /\ Written(tasks["h1"]) # Written(tasks["h2"])
    /\ tasks["h1"].pc = "done"
    /\ tasks["h2"].pc = "redact"
    /\ users[tasks["h1"].sender] = Written(tasks["h2"])

\* the eight literals of the match on msg_splitted[0]
CommandLiterals == QueryCommands \cup {"!subscribe", "!unlink", "!checktor", "!help"}

\* C15: a plain-text message in a joined room from another user whose first
\* space-delimited piece is none of the eight command literals is answered
\* "Invalid command" (the text handed to room.send, and the only one when the
\* send succeeds), with no pool-API call, no store write, no redaction and no
\* change of the store.
C15_InvalidCommand ==
    /\ [](\A t \in TaskIds :
            (/\ InFlight(t)
             /\ PassesEntryGuard(tasks[t])
             /\ Command(tasks[t].body) \notin CommandLiterals)
            => /\ tasks[t].remote = 0
               /\ tasks[t].writes = 0
               /\ tasks[t].redacts = 0
               /\ tasks[t].faults \subseteq {"send", "send_error"}
               /\ Done(t) => /\ tasks[t].sent[1].text = InvalidCommand
                             /\ tasks[t].sent[1].ok => Texts(tasks[t]) = <<InvalidCommand>>)
    /\ [][\A t \in TaskIds :
            (/\ InFlight(t)
             /\ PassesEntryGuard(tasks[t])
             /\ Command(tasks[t].body) \notin CommandLiterals
             /\ tasks'[t] # tasks[t])
            => UNCHANGED <<users, session>>]_vars

C15_Witness ==
    \E t \in TaskIds :
        /\ Done(t)
        /\ tasks[t].sender = "@u1"
        /\ tasks[t].body = <<"!Help">>
        /\ users["@u1"] # NoUser
        /\ tasks[t].sent = <<[text |-> InvalidCommand, ok |-> TRUE]>>

\* the digits with a "," before every group of 3 digits counted from the right
Grouped(digits) ==
    LET n == Len(digits) IN
    Concat([i \in 1..n |-> IF i < n /\ (n - i) % 3 = 0
                           THEN <<digits[i], Comma>> ELSE <<digits[i]>>])

\* the number a string of decimal digits parses to
DigitVal(c) == CHOOSE d \in 0..9 : Char(d) = c
RECURSIVE Val(_)
Val(ds) == IF ds = <<>> THEN 0 ELSE 10 * Val(SubSeq(ds, 1, Len(ds) - 1)) + DigitVal(ds[Len(ds)])
Parse(ds) ==
    LET n == Len(ds)
        limbs == (n + 2) \div 3
    IN  [i \in 1..limbs |->
            LET last == n - 3 * (limbs - i)
                first == IF last - 2 < 1 THEN 1 ELSE last - 2
            IN  Val(SubSeq(ds, first, last))]

RemoveCommas(s) == SelectSeq(s, LAMBDA c : c # Comma)

\* the numbers below 1000^6 = 10^18 (every power the loop takes fits a usize)
InDomain(num) == Len(num) <= 6

\* C16: for every number below 10^18, format_number returns the decimal
\* digits of the number with a "," before every group of 3 digits counted from
\* the right and no leading comma; removing the commas and parsing gives the
\* number back; a number below 1000 is returned as its digits;
\* 180000 gives "180,000" and 1000000000 gives "1,000,000,000".
C16_FormatNumberGroupsByThree ==
    InDomain(fmt.num)
    => /\ fmt.pc # "panicked"
       /\ fmt.pc = "returned"
            => /\ fmt.number = Grouped(to_string(fmt.num))
               /\ fmt.number[1] # Comma
               /\ Parse(RemoveCommas(fmt.number)) = fmt.num
               /\ Len(fmt.num) = 1 => fmt.number = Unpadded(fmt.num[1])
               /\ fmt.num = <<180, 0>>
                    => fmt.number = <<"1", "8", "0", ",", "0", "0", "0">>
               /\ fmt.num = <<1, 0, 0, 0>>
                    => fmt.number = <<"1", ",", "0", "0", "0", ",", "0", "0", "0",
                                      ",", "0", "0", "0">>

C16_Witness ==
    /\ fmt.pc = "returned"
    /\ fmt.num = <<18, 5, 40, 123>>
    /\ fmt.number = <<"1", "8", ",", "0", "0", "5", ",", "0", "4", "0", ",", "1", "2", "3">>

\* C17: for every number up to 2^64 - 1, format_number returns: no power
\* overflows, no index leaves the string, no call panics.
C17_FormatNumberIsTotal ==
    fmt.pc # "idle" => (fmt.pc # "panicked" /\ ~fmt.overflowed)

\* C18: a start that finds no Session record makes one password login and no
\* resume; when the login returned session data, the record with that
\* access_token and device_id is in the store before the display name is set
\* and so before any message is handled; when it returned none, nothing is
\* stored and the start goes on (it can end only in a transport error, as
\* after a rejected login); a rejected login ends the start with no record
\* written.
C18_FirstStartLogsInOnce ==
    ~boot.had
    => /\ boot.logins <= 1
       /\ boot.resumes = 0
       /\ boot.pc \in {"client_session", "create_session", "set_display_name", "sync"}
            => boot.logins = 1
       /\ boot.pc \in {"session_exist", "login", "client_session", "create_session"}
            => session = NoSession
       /\ boot.pc \in {"set_display_name", "sync"} => session = boot.sess
       /\ (\E t \in TaskIds : InFlight(t)) => (boot.pc = "sync" /\ session = boot.sess)
       /\ boot.pc = "panicked"
            => /\ session \in {NoSession, boot.sess}
               /\ boot.sess = NoSession => (session = NoSession /\ boot.error = ErrMatrix)
               /\ boot.error = ErrDb("FailedToPut") => session = NoSession

C18_Witness ==
    /\ ~boot.had
    /\ boot.pc = "sync"
    /\ boot.logins = 1
    /\ session = create_session("a2", "d1")
    /\ boot.sess = session
    /\ \E t \in TaskIds : Done(t)

\* C19: a Session record, once in the store, is never changed and never
\* removed, over every start, restart and handled message.
C19_SessionIsWrittenOnce ==
    [][session # NoSession => session' = session]_vars

\* C20: a step of the handler of an event of sender u changes no Session
\* record and no Subscription record of another user; it changes u's record
\* only when the command is `!subscribe` or `!unlink`; and no step other than
\* the store write of such a handler changes a Subscription record.
C20_Frame ==
    [][/\ \A t \in TaskIds :
            (InFlight(t) /\ tasks'[t] # tasks[t] /\ boot' = boot)
            => /\ session' = session
               /\ \A v \in Users \ {tasks[t].sender} : users'[v] = users[v]
               /\ users' # users
                    => /\ PassesEntryGuard(tasks[t])
                       /\ Command(tasks[t].body) \in {"!subscribe", "!unlink"}
       /\ users' # users
            => \E t \in TaskIds : tasks[t].pc \in {"create_user", "delete_user"}
                                  /\ tasks'[t] # tasks[t]]_vars

C20_Witness ==
    \E t \in TaskIds :
        /\ Done(t)
        /\ Command(tasks[t].body) = "!unlink"
        /\ tasks[t].chk # NoUser
        /\ tasks[t].faults = {}
        /\ users[tasks[t].sender] = NoUser
        /\ users["@u2"] # NoUser
        /\ session # NoSession

\* C21: an accepted `!subscribe <token>` first writes the record {sender,
\* current room, token}, then attempts the redaction, then sends "Subscribed":
\* the redaction is attempted only after a completed write and before any
\* send; "Subscribed" is sent only after the redaction was attempted; a failed
\* redaction changes nothing (the record stays, "Subscribed" is the text
\* sent); a failed write is followed by no redaction and no "Subscribed".
C21_PersistRedactReply ==
    /\ [](\A t \in TaskIds :
            (InFlight(t) /\ Command(tasks[t].body) = "!subscribe")
            => /\ tasks[t].pc = "redact"
                    => /\ tasks[t].writes = 1
                       /\ "create_user" \notin tasks[t].faults
                       /\ tasks[t].redacts = 0
                       /\ tasks[t].sent = <<>>
                       /\ ~tasks[t].overlap => users[tasks[t].sender] = Written(tasks[t])
               /\ tasks[t].redacts = 1
                    => /\ tasks[t].writes = 1
                       /\ "create_user" \notin tasks[t].faults
                       /\ tasks[t].msg_content = Subscribed
                       /\ tasks[t].pc \in {"reply", "on_error", "done"}
               /\ (tasks[t].msg_content = Subscribed
                   \/ \E i \in 1..Len(tasks[t].sent) : tasks[t].sent[i].text = Subscribed)
                    => tasks[t].redacts = 1
               /\ (Done(t) /\ tasks[t].redacts = 1)
                    => /\ tasks[t].sent[1].text = Subscribed
                       /\ ~tasks[t].overlap => users[tasks[t].sender] = Written(tasks[t])
               /\ "create_user" \in tasks[t].faults
                    => /\ tasks[t].redacts = 0
                       /\ tasks[t].error = ErrDb("FailedToPut")
                       /\ \A i \in 1..Len(tasks[t].sent) : tasks[t].sent[i].text # Subscribed)
    /\ [][\A t \in TaskIds :
            (tasks[t].pc = "redact" /\ tasks'[t] # tasks[t]) => users' = users]_vars

C21_Witness ==
    \E t \in TaskIds :
        /\ Done(t)
        /\ tasks[t].body = <<"!subscribe", SP, "t2">>
        /\ tasks[t].chk = NoUser
        /\ tasks[t].faults = {"redact"}
        /\ tasks[t].sent = <<[text |-> Subscribed, ok |-> TRUE]>>
        /\ users[tasks[t].sender] = [room_id |-> tasks[t].room_id, token |-> "t2"]

\* C22: a `!subscribe` with no token (`!subscribe`) or an empty one
\* (`!subscribe` and one space) from a user who has no Subscription is
\* answered "Please provide a token.\nTo subscribe send: !subscribe <token>",
\* writes no record and attempts no redaction.
C22_MissingToken ==
    \A t \in TaskIds :
        (/\ InFlight(t)
         /\ PassesEntryGuard(tasks[t])
         /\ tasks[t].body \in {<<"!subscribe">>, <<"!subscribe", SP>>}
         /\ tasks[t].pc \notin {"entry_guard", "user_with_room_exist"}
         /\ tasks[t].chk = NoUser)
        => /\ tasks[t].writes = 0
           /\ tasks[t].redacts = 0
           /\ tasks[t].remote = 0
           /\ tasks[t].msg_content = ProvideToken
           /\ ~tasks[t].overlap => users[tasks[t].sender] = NoUser
           /\ Done(t) => /\ tasks[t].sent[1].text = ProvideToken
                         /\ tasks[t].sent[1].ok => Texts(tasks[t]) = <<ProvideToken>>

C22_Witness ==
    \E t \in TaskIds :
        /\ Handled(t)
        /\ tasks[t].body = <<"!subscribe", SP>>
        /\ tasks[t].chk = NoUser
        /\ users[tasks[t].sender] = NoUser
        /\ tasks[t].sent = <<[text |-> ProvideToken, ok |-> TRUE]>>

\* C23: a `!subscribe`, one or more spaces, and a non-empty token T, from a
\* sender with no Subscription and with no call failing, is answered
\* "Subscribed" and stores the record with token T.
C23_ExtraSpacesBeforeToken ==
    \A t \in TaskIds :
        (/\ Handled(t)
         /\ Len(tasks[t].body) >= 3
         /\ tasks[t].body[1] = "!subscribe"
         /\ \A i \in 2..(Len(tasks[t].body) - 1) : tasks[t].body[i] = SP
         /\ tasks[t].body[Len(tasks[t].body)] \in Tokens
         /\ tasks[t].chk = NoUser
         /\ Undisturbed(tasks[t]))
        => /\ Texts(tasks[t]) = <<Subscribed>>
           /\ users[tasks[t].sender] =
                 [room_id |-> tasks[t].room_id, token |-> tasks[t].body[Len(tasks[t].body)]]

\* the whole of a qualified name after its first '.'
RECURSIVE AfterFirstDot(_)
AfterFirstDot(name) ==
    IF name = <<>> THEN ""
    ELSE IF Head(name) = DOT THEN Str(Tail(name))
    ELSE AfterFirstDot(Tail(name))

\* C24: in the text sent for `!workers`, every worker whose qualified name has
\* a '.' is shown under the whole of the name after the first '.', and every
\* worker returned has its status, last-share and four hashrate lines.
C24_WorkerNameAfterFirstDot ==
    report.pc = "sent"
    => \A i \in 1..Len(report.obj) :
          LET name == report.obj[i]
              lines == {report.msg[j] : j \in 1..Len(report.msg)}
          IN  /\ (\E k \in 1..Len(name) : name[k] = DOT)
                    => [label |-> "Worker", text |-> AfterFirstDot(name)] \in lines
              /\ \A label \in {"Status", "Last share", "Hashrate scoring",
                               "Hashrate 5m", "Hashrate 60m", "Hashrate 24h"} :
                    [label |-> label, text |-> Str(name)] \in lines

====
